---- MODULE Spec2Model ----
(***************************************************************************)
(* Model of the risk-managed trade lifecycle of geminiBOT712:               *)
(* position sizing, volatility stops, the paper/live executors, the        *)
(* portfolio monitor's circuit breaker and the backtest engine.            *)
(*                                                                         *)
(* Python floats are modelled as exact rationals [n, d] (d > 0); the       *)
(* enumerated inputs are chosen so that the float arithmetic of the code   *)
(* is exact on them.                                                       *)
(***************************************************************************)
EXTENDS Integers, Sequences, FiniteSets, TLC

(***************************************************************************)
(* Rational arithmetic                                                     *)
(***************************************************************************)
RECURSIVE GCD(_, _)
GCD(a, b) ==
    IF b = 0 THEN a ELSE GCD(b, a % b)

IAbs(x) ==
    IF x < 0 THEN -x ELSE x

Rat(n, d) ==
    LET s == IF d < 0 THEN -1 ELSE 1
        g == GCD(IAbs(n), IAbs(d))
    IN  [n |-> (s * n) \div g, d |-> (s * d) \div g]

R(i) ==
    [n |-> i, d |-> 1]

RAdd(a, b) ==
    Rat(a.n * b.d + b.n * a.d, a.d * b.d)

RSub(a, b) ==
    Rat(a.n * b.d - b.n * a.d, a.d * b.d)

RMul(a, b) ==
    Rat(a.n * b.n, a.d * b.d)

RDiv(a, b) ==
    Rat(a.n * b.d, a.d * b.n)

RNeg(a) ==
    [n |-> -a.n, d |-> a.d]

RAbs(a) ==
    [n |-> IAbs(a.n), d |-> a.d]

RLe(a, b) ==
    a.n * b.d <= b.n * a.d

RLt(a, b) ==
    a.n * b.d < b.n * a.d

REq(a, b) ==
    a.n * b.d = b.n * a.d

\* Python's max(a, b): returns b only when b > a
RMax(a, b) ==
    IF RLt(a, b) THEN b ELSE a

\* Python's min(a, b): returns b only when b < a
RMin(a, b) ==
    IF RLt(b, a) THEN b ELSE a

Zero ==
    R(0)

None ==
    "None"

\* an unavailable price: no cached entry (None); `if not current_price` treats 0 alike
NoPrice ==
    0

(***************************************************************************)
(* config/trading_config.py                                                *)
(***************************************************************************)
MAX_RISK_PER_TRADE ==
    Rat(2, 100)

MAX_DAILY_LOSS_LIMIT ==
    Rat(8, 100)

MIN_CONFIDENCE_SCORE ==
    Rat(85, 1)

MAX_PORTFOLIO_EXPOSURE ==
    Rat(50, 100)

\* portfolio_capital default of PaperTrader, LiveBroker and PortfolioMonitor
PortfolioCapital ==
    10000

(***************************************************************************)
(* risk_management/volatility_manager.py                                   *)
(***************************************************************************)
Directions ==
    {"BULLISH", "BEARISH"}

get_volatility_adjusted_stop_loss_no_fallback(entry_price, direction, atr, multiplier) ==
    IF direction = "BULLISH"
    THEN RSub(entry_price, RMul(atr, multiplier))
    ELSE RAdd(entry_price, RMul(atr, multiplier))

\* a fallback that puts the fixed 5% on the profit side of the entry
get_volatility_adjusted_stop_loss_mirrored(entry_price, direction, atr, multiplier) ==
    IF RLe(atr, Zero)
    THEN IF direction = "BULLISH"
         THEN RMul(entry_price, Rat(105, 100))
         ELSE RMul(entry_price, Rat(95, 100))
    ELSE IF direction = "BULLISH"
         THEN RSub(entry_price, RMul(atr, multiplier))
         ELSE RAdd(entry_price, RMul(atr, multiplier))

get_volatility_adjusted_stop_loss(entry_price, direction, atr, multiplier) ==
    IF RLe(atr, Zero)
    THEN IF direction = "BULLISH"
         THEN RMul(entry_price, Rat(95, 100))
         ELSE RMul(entry_price, Rat(105, 100))
    ELSE IF direction = "BULLISH"
         THEN RSub(entry_price, RMul(atr, multiplier))
         ELSE RAdd(entry_price, RMul(atr, multiplier))

trailing_stop_no_floor(current_price, existing_stop, direction, atr, multiplier) ==
    IF RLe(atr, Zero)
    THEN existing_stop
    ELSE IF direction = "BULLISH"
         THEN RSub(current_price, RMul(atr, multiplier))
         ELSE RAdd(current_price, RMul(atr, multiplier))

trailing_stop_no_guard(current_price, existing_stop, direction, atr, multiplier) ==
    IF direction = "BULLISH"
    THEN RMax(existing_stop, RSub(current_price, RMul(atr, multiplier)))
    ELSE RMin(existing_stop, RAdd(current_price, RMul(atr, multiplier)))

trailing_stop(current_price, existing_stop, direction, atr, multiplier) ==
    IF RLe(atr, Zero)
    THEN existing_stop
    ELSE IF direction = "BULLISH"
         THEN RMax(existing_stop, RSub(current_price, RMul(atr, multiplier)))
         ELSE RMin(existing_stop, RAdd(current_price, RMul(atr, multiplier)))

(***************************************************************************)
(* risk_management/position_sizer.py                                       *)
(***************************************************************************)
fixed_fractional_signed(total_capital, entry_price, stop_loss_price) ==
    LET risk_per_share == RSub(entry_price, stop_loss_price)
    IN  IF RLe(risk_per_share, Zero)
        THEN Zero
        ELSE RDiv(RMul(R(total_capital), MAX_RISK_PER_TRADE), risk_per_share)

fixed_fractional(total_capital, entry_price, stop_loss_price) ==
    LET risk_per_share == RAbs(RSub(entry_price, stop_loss_price))
    IN  IF RLe(risk_per_share, Zero)
        THEN Zero
        ELSE LET risk_amount == RMul(R(total_capital), MAX_RISK_PER_TRADE)
             IN  RDiv(risk_amount, risk_per_share)

kelly_criterion_swapped(total_capital, entry_price, stop_loss_price, win_prob, win_loss_ratio) ==
    IF RLe(win_loss_ratio, Zero)
    THEN Zero
    ELSE LET kelly_fraction == RSub(win_prob, RMul(RSub(R(1), win_prob), win_loss_ratio))
         IN  IF RLe(kelly_fraction, Zero)
             THEN Zero
             ELSE LET risk_fraction == RMin(RMul(kelly_fraction, Rat(1, 2)), MAX_RISK_PER_TRADE)
                      risk_amount == RMul(R(total_capital), risk_fraction)
                      risk_per_share == RAbs(RSub(entry_price, stop_loss_price))
                  IN  IF RLe(risk_per_share, Zero)
                      THEN Zero
                      ELSE RDiv(risk_amount, risk_per_share)

kelly_criterion_undamped(total_capital, entry_price, stop_loss_price, win_prob, win_loss_ratio) ==
    IF RLe(win_loss_ratio, Zero)
    THEN Zero
    ELSE LET kelly_fraction == RSub(win_prob, RDiv(RSub(R(1), win_prob), win_loss_ratio))
         IN  IF RLe(kelly_fraction, Zero)
             THEN Zero
             ELSE LET risk_fraction == RMin(kelly_fraction, MAX_RISK_PER_TRADE)
                      risk_amount == RMul(R(total_capital), risk_fraction)
                      risk_per_share == RAbs(RSub(entry_price, stop_loss_price))
                  IN  IF RLe(risk_per_share, Zero)
                      THEN Zero
                      ELSE RDiv(risk_amount, risk_per_share)

kelly_criterion(total_capital, entry_price, stop_loss_price, win_prob, win_loss_ratio) ==
    IF RLe(win_loss_ratio, Zero)
    THEN Zero
    ELSE LET kelly_fraction == RSub(win_prob, RDiv(RSub(R(1), win_prob), win_loss_ratio))
         IN  IF RLe(kelly_fraction, Zero)
             THEN Zero
             ELSE LET risk_fraction == RMin(RMul(kelly_fraction, Rat(1, 2)), MAX_RISK_PER_TRADE)
                      risk_amount == RMul(R(total_capital), risk_fraction)
                      risk_per_share == RAbs(RSub(entry_price, stop_loss_price))
                  IN  IF RLe(risk_per_share, Zero)
                      THEN Zero
                      ELSE RDiv(risk_amount, risk_per_share)


calculate_size(strategy, total_capital, entry_price, stop_loss_price, win_probability, avg_win_loss_ratio) ==
    IF strategy = "fixed_fractional"
    THEN fixed_fractional(total_capital, entry_price, stop_loss_price)
    ELSE IF strategy = "kelly_criterion"
         THEN kelly_criterion(total_capital, entry_price, stop_loss_price,
                              win_probability, avg_win_loss_ratio)
         ELSE Zero

(***************************************************************************)
(* execution/trade_executor.py                                             *)
(***************************************************************************)
\* the result is a record: a ZeroDivisionError is raised when the two prices are equal
SimpleSizer_calculate_size(total_capital, entry_price, stop_loss_price) ==
    IF REq(entry_price, stop_loss_price)
    THEN [raised |-> "ZeroDivisionError", size |-> Zero]
    ELSE [raised |-> None,
          size |-> RMax(RDiv(RMul(R(total_capital), Rat(1, 100)),
                             RAbs(RSub(entry_price, stop_loss_price))), Zero)]

(***************************************************************************)
(* State                                                                   *)
(***************************************************************************)
VARIABLES
    redis_price,        \* live system: the cached price:<symbol> of each symbol, or NoPrice
    signals,            \* live system: rows of the signals table, in id order
    trades,             \* live system: rows of the trades table, in id order
    is_trading_halted,  \* PortfolioMonitor.is_trading_halted
    loss_alerts,        \* number of "MAX DAILY LOSS LIMIT REACHED" critical notifications
    daily_drawdown,     \* whether the latest monitor tick computed a drawdown, and its value
    last_op,            \* the operation that ran last
    ts,                 \* trailing-stop chain: direction, stored stop, inputs and result of the last call
    sizer,              \* a PositionSizer: strategy, capital, inputs and result of the last call
    bt,                 \* a BacktestEngine run
    gate,               \* SignalAggregator: the insight store, the evaluation in progress,
                        \* the messages published on trade_signals, the SignalFilter model
    pa,                 \* a PerformanceAnalyzer: trade log, equity curve and the result of
                        \* the last call
    loop                \* a periodic run loop (SignalAggregator.run or PortfolioMonitor.run):
                        \* its position, and what became of each key or trade of its
                        \* current cycle

vars ==
    <<redis_price, signals, trades, is_trading_halted, loss_alerts, daily_drawdown,
      last_op, ts, sizer, bt, gate, pa, loop>>

live_vars ==
    <<redis_price, signals, trades, is_trading_halted, loss_alerts, daily_drawdown>>

(***************************************************************************)
(* Bounds and input sets                                                   *)
(***************************************************************************)
MaxSignals ==
    3

MaxTrades ==
    3

Symbols ==
    {"AAPL"}

Prices ==
    {60, 100}

Signals ==
    [symbol : Symbols, direction : Directions]

\* multiplier passed by process_signal
StopMultiplier ==
    R(2)

(***************************************************************************)
(* database/db_manager.py                                                  *)
(***************************************************************************)
\* INSERT INTO signals ... 'generated'; outcome is a column no statement of the code writes
save_signal(store, signal_data) ==
    Append(store, [symbol |-> signal_data.symbol, direction |-> signal_data.direction,
                   status |-> "generated", outcome |-> None])

\* the direction column read back by get_open_trades is not written by the INSERT of
\* save_trade; it is the direction of the signal the trade was placed for
TradeDirection(signal) ==
    signal.direction

save_trade_upsert(store, trade_data, signal) ==
    LET row == [signal_id |-> trade_data.signal_id, symbol |-> trade_data.symbol,
                direction |-> TradeDirection(signal),
                entry_price |-> trade_data.entry_price, stop_loss |-> trade_data.stop_loss,
                position_size |-> trade_data.position_size, status |-> trade_data.status]
        same == {i \in 1..Len(store) : store[i].symbol = row.symbol /\ store[i].status = "open"}
    IN  IF same = {}
        THEN Append(store, row)
        ELSE LET i == CHOOSE j \in same : \A k \in same : j <= k
             IN  [store EXCEPT ![i] = row]

save_trade(store, trade_data, signal) ==
    Append(store, [signal_id |-> trade_data.signal_id, symbol |-> trade_data.symbol,
                   direction |-> TradeDirection(signal),
                   entry_price |-> trade_data.entry_price, stop_loss |-> trade_data.stop_loss,
                   position_size |-> trade_data.position_size, status |-> trade_data.status])

\* SELECT * FROM trades WHERE status = 'open': the ids of the open rows
get_open_trades(store) ==
    {i \in 1..Len(store) : store[i].status = "open"}

\* columns of the DataFrame returned by get_historical_data
HistoryColumns ==
    {"close", "volume"}

(***************************************************************************)
(* VolatilityManager.calculate_atr on a frame [columns, bars]               *)
(***************************************************************************)
ATR_PERIOD ==
    14

TrueRange(bars, i) ==
    LET high_low == RSub(bars[i].high, bars[i].low)
    IN  IF i = 1
        THEN high_low
        ELSE RMax(RMax(high_low, RAbs(RSub(bars[i].high, bars[i - 1].close))),
                  RAbs(RSub(bars[i].low, bars[i - 1].close)))

RECURSIVE Ewm(_, _, _)
Ewm(bars, i, period) ==
    IF i = 1
    THEN TrueRange(bars, 1)
    ELSE RAdd(RMul(Rat(period - 1, period), Ewm(bars, i - 1, period)),
              RMul(Rat(1, period), TrueRange(bars, i)))

calculate_atr(price_history, period) ==
    IF Len(price_history.bars) < period
       \/ ~({"high", "low", "close"} \subseteq price_history.columns)
    THEN Zero
    ELSE Ewm(price_history.bars, Len(price_history.bars), period)


(***************************************************************************)
(* execution/paper_trader.py, execution/live_broker.py                     *)
(***************************************************************************)
\* frames get_historical_data can return: empty, or rows of close and volume only
Histories ==
    {[columns |-> {}, bars |-> <<>>],
     [columns |-> HistoryColumns, bars |-> [i \in 1..ATR_PERIOD |-> [close |-> R(100)]]]}

\* PaperTrader.get_current_price: the regularMarketPrice cached under price:<symbol>
get_current_price(symbol) ==
    redis_price[symbol]

\* the f-string of the second logger.critical names entry_rice, which is not defined:
\* NameError is raised before save_trade is reached, so the store is returned as it was
PaperTrader_place_trade(store, signal, signal_id, entry_price, stop_loss, size) ==
    [raised |-> "NameError", store |-> store]

\* a place_trade that stores the trade under the id after the signal's
LiveBroker_place_trade_unlinked(store, signal, signal_id, entry_price, stop_loss, size) ==
    LET trade_details == [signal_id |-> signal_id + 1, symbol |-> signal.symbol,
                          entry_price |-> entry_price, stop_loss |-> stop_loss,
                          position_size |-> size, status |-> "open"]
    IN  [raised |-> None, store |-> save_trade(store, trade_details, signal)]

\* LiveBroker.place_trade: the order is logged and the trade row saved
LiveBroker_place_trade(store, signal, signal_id, entry_price, stop_loss, size) ==
    LET trade_details == [signal_id |-> signal_id, symbol |-> signal.symbol,
                          entry_price |-> entry_price, stop_loss |-> stop_loss,
                          position_size |-> size, status |-> "open"]
    IN  [raised |-> None, store |-> save_trade(store, trade_details, signal)]

\* what process_signal computes before it saves anything
Admission(signal, current_price, price_history) ==
    LET atr == IF price_history.bars = <<>>
               THEN Zero
               ELSE calculate_atr(price_history, ATR_PERIOD)
        stop_loss_price == get_volatility_adjusted_stop_loss(
                               R(current_price), signal.direction, atr, StopMultiplier)
        sized == SimpleSizer_calculate_size(PortfolioCapital, R(current_price), stop_loss_price)
    IN  [entry_price |-> R(current_price), stop_loss |-> stop_loss_price,
         raised |-> sized.raised, size |-> sized.size]

PaperTrader_process_signal_eager ==
    /\ Len(signals) < MaxSignals
    /\ \E signal \in Signals, price_history \in Histories :
          LET current_price == get_current_price(signal.symbol)
          IN  /\ signals' = save_signal(signals, signal)
              /\ UNCHANGED trades
    /\ last_op' = "process_signal"
    /\ UNCHANGED <<redis_price, is_trading_halted, loss_alerts, daily_drawdown, ts, sizer, bt, gate, pa, loop>>

PaperTrader_process_signal ==
    /\ Len(signals) < MaxSignals
    /\ \E signal \in Signals, price_history \in Histories :
          LET current_price == get_current_price(signal.symbol)
          IN  IF current_price = NoPrice
              THEN UNCHANGED <<signals, trades>>
              ELSE LET a == Admission(signal, current_price, price_history)
                   IN  IF a.raised # None \/ RLe(a.size, Zero)
                       THEN UNCHANGED <<signals, trades>>
                       ELSE /\ signals' = save_signal(signals, signal)
                            /\ trades' = PaperTrader_place_trade(
                                             trades, signal, Len(signals) + 1,
                                             a.entry_price, a.stop_loss, a.size).store
    /\ last_op' = "process_signal"
    /\ UNCHANGED <<redis_price, is_trading_halted, loss_alerts, daily_drawdown, ts, sizer, bt, gate, pa, loop>>

\* LiveBroker.place_trade called for a saved signal that has no trade yet, with the
\* arguments an admission computes (paper_trader.py:38-52)
LiveBroker_place ==
    /\ Len(trades) < MaxTrades
    /\ \E signal_id \in 1..Len(signals), price_history \in Histories :
          LET signal == signals[signal_id]
              current_price == get_current_price(signal.symbol)
              a == Admission(signal, current_price, price_history)
          IN  /\ current_price # NoPrice
              /\ \A i \in 1..Len(trades) : trades[i].signal_id # signal_id
              /\ a.raised = None
              /\ RLt(Zero, a.size)
              /\ trades' = LiveBroker_place_trade(trades, signal, signal_id,
                                                  a.entry_price, a.stop_loss, a.size).store
    /\ last_op' = "place_trade"
    /\ UNCHANGED <<redis_price, signals, is_trading_halted, loss_alerts, daily_drawdown,
                   ts, sizer, bt, gate, pa, loop>>

\* the price feed rewrites or expires the cached price of a symbol
PriceFeed ==
    /\ \E s \in Symbols, p \in Prices \cup {NoPrice} :
          /\ p # redis_price[s]
          /\ redis_price' = [redis_price EXCEPT ![s] = p]
    /\ last_op' = "price"
    /\ UNCHANGED <<signals, trades, is_trading_halted, loss_alerts, daily_drawdown,
                   ts, sizer, bt, gate, pa, loop>>

(***************************************************************************)
(* risk_management/portfolio_monitor.py                                    *)
(***************************************************************************)
\* PortfolioMonitor.get_current_price is a placeholder for the live price feed whose body
\* returns None; the results the feed can give for a symbol are None (NoPrice) or its
\* cached price
PortfolioMonitor_get_current_price(symbol) ==
    {NoPrice, redis_price[symbol]}

TradePnl(trade, current_price) ==
    LET direction_multiplier == IF trade.direction = "BULLISH" THEN 1 ELSE -1
    IN  RMul(RMul(RSub(R(current_price), trade.entry_price), trade.position_size),
             R(direction_multiplier))

\* a loop that values a trade without a price at a price of 0
RECURSIVE TotalPnl_unpriced_at_zero(_, _, _)
TotalPnl_unpriced_at_zero(store, seen, n) ==
    IF n = 0
    THEN Zero
    ELSE IF store[n].status # "open"
         THEN TotalPnl_unpriced_at_zero(store, seen, n - 1)
         ELSE RAdd(TotalPnl_unpriced_at_zero(store, seen, n - 1),
                   TradePnl(store[n], seen[n]))

\* the for loop of check_portfolio_pnl over rows 1..n; seen[i] is the price returned for row i
RECURSIVE TotalPnl(_, _, _)
TotalPnl(store, seen, n) ==
    IF n = 0
    THEN Zero
    ELSE IF store[n].status # "open" \/ seen[n] = NoPrice
         THEN TotalPnl(store, seen, n - 1)
         ELSE RAdd(TotalPnl(store, seen, n - 1), TradePnl(store[n], seen[n]))

check_portfolio_pnl ==
    LET open_trades == get_open_trades(trades)
    IN  IF open_trades = {}
        THEN /\ daily_drawdown' = [computed |-> FALSE, value |-> Zero]
             /\ UNCHANGED <<is_trading_halted, loss_alerts>>
        ELSE \E seen \in [1..Len(trades) -> Prices \cup {NoPrice}] :
                /\ \A i \in 1..Len(trades) :
                      seen[i] \in PortfolioMonitor_get_current_price(trades[i].symbol)
                /\ LET total_pnl == TotalPnl(trades, seen, Len(trades))
                       dd == RDiv(RNeg(total_pnl), R(PortfolioCapital))
                   IN  /\ daily_drawdown' = [computed |-> TRUE, value |-> dd]
                       /\ IF RLe(MAX_DAILY_LOSS_LIMIT, dd)
                          THEN /\ is_trading_halted' = TRUE
                               /\ loss_alerts' = loss_alerts + 1
                          ELSE UNCHANGED <<is_trading_halted, loss_alerts>>

\* a run loop that evaluates the portfolio on every iteration, halted or not
PortfolioMonitor_run_unguarded ==
    /\ check_portfolio_pnl
    /\ last_op' = "monitor_check"
    /\ UNCHANGED <<redis_price, signals, trades, ts, sizer, bt, gate, pa, loop>>

\* a run loop that clears the halt after its pause
PortfolioMonitor_run_resuming ==
    /\ IF is_trading_halted
       THEN /\ last_op' = "monitor_sleep"
            /\ is_trading_halted' = FALSE
            /\ UNCHANGED <<loss_alerts, daily_drawdown>>
       ELSE /\ check_portfolio_pnl
            /\ last_op' = "monitor_check"
    /\ UNCHANGED <<redis_price, signals, trades, ts, sizer, bt, gate, pa, loop>>

\* a run loop whose evaluating tick also marks every trade closed
PortfolioMonitor_run_closing ==
    /\ IF is_trading_halted
       THEN /\ last_op' = "monitor_sleep"
            /\ UNCHANGED <<is_trading_halted, loss_alerts, daily_drawdown, trades>>
       ELSE /\ check_portfolio_pnl
            /\ last_op' = "monitor_check"
            /\ trades' = [i \in 1..Len(trades) |-> [trades[i] EXCEPT !.status = "closed"]]
    /\ UNCHANGED <<redis_price, signals, ts, sizer, bt, gate, pa, loop>>

\* one iteration of the loop of PortfolioMonitor.run
PortfolioMonitor_run ==
    /\ IF is_trading_halted
       THEN /\ last_op' = "monitor_sleep"
            /\ UNCHANGED <<is_trading_halted, loss_alerts, daily_drawdown>>
       ELSE /\ check_portfolio_pnl
            /\ last_op' = "monitor_check"
    /\ UNCHANGED <<redis_price, signals, trades, ts, sizer, bt, gate, pa, loop>>


(***************************************************************************)
(* A stop trailed by successive calls of VolatilityManager.trailing_stop   *)
(***************************************************************************)
MaxCalls ==
    3

TsPrices ==
    {95, 101, 105, 110}

TsAtrs ==
    {-1, 0, 2}

TsMultipliers ==
    {1, 2}

TsInitialStops ==
    {100}

TsInit ==
    \E d \in Directions, stop \in TsInitialStops :
       ts = [direction |-> d, stop |-> R(stop), calls |-> 0,
             current_price |-> Zero, existing_stop |-> Zero, atr |-> Zero,
             multiplier |-> Zero, entry_price |-> Zero, initial_stop |-> Zero]

TsIdle ==
    ts = [direction |-> "BULLISH", stop |-> Zero, calls |-> 0,
          current_price |-> Zero, existing_stop |-> Zero, atr |-> Zero,
          multiplier |-> Zero, entry_price |-> Zero, initial_stop |-> Zero]

\* a call of get_volatility_adjusted_stop_loss for a new position of the direction
InitialStopCall ==
    /\ last_op = "init"
    /\ \E entry \in TsPrices, atr \in TsAtrs, multiplier \in TsMultipliers :
          ts' = [ts EXCEPT
                    !.initial_stop = get_volatility_adjusted_stop_loss(
                                         R(entry), ts.direction, R(atr), R(multiplier)),
                    !.entry_price = R(entry), !.atr = R(atr),
                    !.multiplier = R(multiplier)]
    /\ last_op' = "initial_stop"
    /\ UNCHANGED <<live_vars, sizer, bt, gate, pa, loop>>

\* one call, fed the stop the previous call returned
TrailingStopCall ==
    /\ ts.calls < MaxCalls
    /\ \E price \in TsPrices, atr \in TsAtrs, multiplier \in TsMultipliers :
          ts' = [direction |-> ts.direction,
                 stop |-> trailing_stop(R(price), ts.stop, ts.direction, R(atr), R(multiplier)),
                 calls |-> ts.calls + 1,
                 current_price |-> R(price), existing_stop |-> ts.stop, atr |-> R(atr),
                 multiplier |-> R(multiplier), entry_price |-> ts.entry_price,
                 initial_stop |-> ts.initial_stop]
    /\ last_op' = "trailing_stop"
    /\ UNCHANGED <<live_vars, sizer, bt, gate, pa, loop>>

(***************************************************************************)
(* A PositionSizer and its calculate_size                                  *)
(***************************************************************************)
Strategies ==
    {"fixed_fractional", "kelly_criterion"}

Capitals ==
    {10000, 100000}

SizerPrices ==
    {95, 100, 105, 150}

\* win probabilities and win/loss ratios, as rationals on which float arithmetic is exact
WinProbabilities ==
    {Rat(0, 1), Rat(1, 4), Rat(1, 2), Rat(33, 64), Rat(3, 4), Rat(1, 1)}

WinLossRatios ==
    {Rat(-1, 1), Rat(0, 1), Rat(1, 2), Rat(1, 1), Rat(2, 1), Rat(5, 2)}

SizerNew(strategy, total_capital) ==
    [class |-> "PositionSizer", strategy |-> strategy, total_capital |-> total_capital,
     called |-> FALSE, raised |-> None,
     entry_price |-> Zero, stop_loss_price |-> Zero, win_probability |-> Zero,
     avg_win_loss_ratio |-> Zero, size |-> Zero]

\* the sizer every executor is built with (trade_executor.py:11): it has no strategy
SimpleSizerNew(capital) ==
    [SizerNew(None, capital) EXCEPT !.class = "SimpleSizer"]

SizerInit ==
    \/ \E strategy \in Strategies, total_capital \in Capitals :
          sizer = SizerNew(strategy, total_capital)
    \/ \E capital \in Capitals :
          sizer = SimpleSizerNew(capital)

SizerIdle ==
    sizer = SizerNew("fixed_fractional", PortfolioCapital)

PositionSizer_calculate_size ==
    /\ sizer.class = "PositionSizer"
    /\ \E entry \in SizerPrices, stop \in SizerPrices,
          p \in WinProbabilities, r \in WinLossRatios :
          sizer' = [sizer EXCEPT
                       !.called = TRUE,
                       !.entry_price = R(entry), !.stop_loss_price = R(stop),
                       !.win_probability = p, !.avg_win_loss_ratio = r,
                       !.size = calculate_size(sizer.strategy, sizer.total_capital,
                                               R(entry), R(stop), p, r)]
    /\ last_op' = "calculate_size"
    /\ UNCHANGED <<live_vars, ts, bt, gate, pa, loop>>

\* a call of SimpleSizer.calculate_size; when it raises, no size is returned
SimpleSizer_call ==
    /\ sizer.class = "SimpleSizer"
    /\ \E entry \in SizerPrices, stop \in SizerPrices :
          LET result == SimpleSizer_calculate_size(sizer.total_capital, R(entry), R(stop))
          IN  sizer' = [sizer EXCEPT
                           !.called = TRUE, !.raised = result.raised,
                           !.entry_price = R(entry), !.stop_loss_price = R(stop),
                           !.size = result.size]
    /\ last_op' = "simple_size"
    /\ UNCHANGED <<live_vars, ts, bt, gate, pa, loop>>


(***************************************************************************)
(* backtesting/backtest_engine.py                                          *)
(***************************************************************************)
SMA_SHORT ==
    20

SMA_LONG ==
    50

\* number of bars after the first bar at which a position can be opened
BtTail ==
    4

BtPrices ==
    {90, 100, 110}

\* bars at which the level of the warm-up bars can change
BtSteps ==
    {31}

BtCapitals ==
    {10000}

\* the close series of the single replayed symbol, integer-indexed from 0:
\* SMA_LONG + 1 warm-up bars at one level, then another, followed by free bars
BtSeries ==
    {[i \in 1..(SMA_LONG + 1 + BtTail) |->
         IF i <= k THEN a ELSE IF i <= SMA_LONG + 1 THEN b ELSE tail[i - SMA_LONG - 1]] :
       a \in BtPrices, b \in BtPrices, k \in BtSteps, tail \in [1..BtTail -> BtPrices]}

BtNew(data, capital) ==
    [data |-> data, initial_capital |-> capital, capital |-> R(capital), i |-> 0,
     trades |-> <<>>, open_position |-> 0, equity_curve |-> <<>>]

BtInit ==
    \E data \in BtSeries, capital \in BtCapitals :
       bt = BtNew(data, capital)

BtIdle ==
    bt = BtNew(<<>>, PortfolioCapital)

RECURSIVE SumCloses(_, _, _)
SumCloses(data, from, to) ==
    IF from > to THEN 0 ELSE data[to] + SumCloses(data, from, to - 1)

Sma_lookahead(data, i, n) ==
    IF i + 2 <= Len(data)
    THEN Rat(SumCloses(data, i - n + 3, i + 2), n)
    ELSE Rat(SumCloses(data, i - n + 1, i), n)

\* data['close'][i-n:i].mean() at the bar labelled i (rows i-n .. i-1, counted from 0)
Sma(data, i, n) ==
    Rat(SumCloses(data, i - n + 1, i), n)

\* the stop test of the loop body on the open position
StopHit(position, current_price) ==
    \/ position.direction = "LONG" /\ RLe(current_price, position.stop_loss)
    \/ position.direction = "SHORT" /\ RLe(position.stop_loss, current_price)

_open_position(direction, price, size, stop_loss, timestamp) ==
    [direction |-> direction, entry_price |-> price, size |-> size, stop_loss |-> stop_loss,
     entry_date |-> timestamp, closed |-> FALSE, exit_price |-> Zero, exit_date |-> 0,
     pnl |-> Zero]

_close_position_unsigned(position, price, timestamp) ==
    LET pnl == RMul(RSub(price, position.entry_price), position.size)
    IN  [position EXCEPT !.closed = TRUE, !.exit_price = price, !.exit_date = timestamp,
                         !.pnl = pnl]

\* the record with exit_price, exit_date and pnl set; pnl is also added to the capital
_close_position(position, price, timestamp) ==
    LET pnl0 == RMul(RSub(price, position.entry_price), position.size)
        pnl == IF position.direction = "SHORT" THEN RNeg(pnl0) ELSE pnl0
    IN  [position EXCEPT !.closed = TRUE, !.exit_price = price, !.exit_date = timestamp,
                         !.pnl = pnl]

sma_signal_inverted(data, i) ==
    LET sma_short == Sma(data, i, SMA_SHORT)
        sma_long == Sma(data, i, SMA_LONG)
    IN  IF RLt(sma_long, sma_short) THEN "SHORT"
        ELSE IF RLt(sma_short, sma_long) THEN "LONG"
        ELSE None

\* the moving-average crossover of the loop body at the bar labelled i: the direction
\* to open, or None
sma_signal(data, i) ==
    LET sma_short == Sma(data, i, SMA_SHORT)
        sma_long == Sma(data, i, SMA_LONG)
    IN  IF RLt(sma_long, sma_short) THEN "LONG"
        ELSE IF RLt(sma_short, sma_long) THEN "SHORT"
        ELSE None

\* a loop body that opens a position on every signal, whether or not one is open
run_bar_pyramiding(b) ==
    LET i == b.i
           current_price == R(b.data[i + 1])
           closes == b.open_position # 0 /\ StopHit(b.trades[b.open_position], current_price)
           closed == IF closes
                     THEN _close_position(b.trades[b.open_position], current_price, i)
                     ELSE [pnl |-> Zero]
           trades1 == IF closes
                      THEN [b.trades EXCEPT ![b.open_position] = closed]
                      ELSE b.trades
           capital1 == IF closes THEN RAdd(b.capital, closed.pnl) ELSE b.capital
           open1 == IF closes THEN 0 ELSE b.open_position
           direction == IF i > SMA_LONG THEN sma_signal(b.data, i) ELSE None
           stop_loss == IF direction = "LONG" THEN RMul(current_price, Rat(95, 100))
                        ELSE RMul(current_price, Rat(105, 100))
           size == calculate_size("fixed_fractional", b.initial_capital,
                                  current_price, stop_loss, Rat(3, 4), Rat(5, 2))
           trades2 == IF direction = None
                      THEN trades1
                      ELSE Append(trades1,
                                  _open_position(direction, current_price, size, stop_loss, i))
           open2 == IF direction = None THEN open1 ELSE Len(trades2)
    IN  [b EXCEPT !.i = i + 1, !.trades = trades2, !.open_position = open2,
                  !.capital = capital1,
                  !.equity_curve = Append(b.equity_curve, capital1)]

run_bar_stale_equity(b) ==
    LET i == b.i
           current_price == R(b.data[i + 1])
           closes == b.open_position # 0 /\ StopHit(b.trades[b.open_position], current_price)
           closed == IF closes
                     THEN _close_position(b.trades[b.open_position], current_price, i)
                     ELSE [pnl |-> Zero]
           trades1 == IF closes
                      THEN [b.trades EXCEPT ![b.open_position] = closed]
                      ELSE b.trades
           capital1 == IF closes THEN RAdd(b.capital, closed.pnl) ELSE b.capital
           open1 == IF closes THEN 0 ELSE b.open_position
           direction == IF i > SMA_LONG /\ open1 = 0 THEN sma_signal(b.data, i) ELSE None
           stop_loss == IF direction = "LONG" THEN RMul(current_price, Rat(95, 100))
                        ELSE RMul(current_price, Rat(105, 100))
           size == calculate_size("fixed_fractional", b.initial_capital,
                                  current_price, stop_loss, Rat(3, 4), Rat(5, 2))
           trades2 == IF direction = None
                      THEN trades1
                      ELSE Append(trades1,
                                  _open_position(direction, current_price, size, stop_loss, i))
           open2 == IF direction = None THEN open1 ELSE Len(trades2)
    IN  [b EXCEPT !.i = i + 1, !.trades = trades2, !.open_position = open2,
                  !.capital = capital1,
                  !.equity_curve = Append(b.equity_curve, b.capital)]

\* the body of the loop of BacktestEngine.run on the bar labelled b.i: the engine after it
run_bar(b) ==
    LET i == b.i
           current_price == R(b.data[i + 1])
           closes == b.open_position # 0 /\ StopHit(b.trades[b.open_position], current_price)
           closed == IF closes
                     THEN _close_position(b.trades[b.open_position], current_price, i)
                     ELSE [pnl |-> Zero]
           trades1 == IF closes
                      THEN [b.trades EXCEPT ![b.open_position] = closed]
                      ELSE b.trades
           capital1 == IF closes THEN RAdd(b.capital, closed.pnl) ELSE b.capital
           open1 == IF closes THEN 0 ELSE b.open_position
           direction == IF i > SMA_LONG /\ open1 = 0 THEN sma_signal(b.data, i) ELSE None
           stop_loss == IF direction = "LONG" THEN RMul(current_price, Rat(95, 100))
                        ELSE RMul(current_price, Rat(105, 100))
           size == calculate_size("fixed_fractional", b.initial_capital,
                                  current_price, stop_loss, Rat(3, 4), Rat(5, 2))
           trades2 == IF direction = None
                      THEN trades1
                      ELSE Append(trades1,
                                  _open_position(direction, current_price, size, stop_loss, i))
           open2 == IF direction = None THEN open1 ELSE Len(trades2)
    IN  [b EXCEPT !.i = i + 1, !.trades = trades2, !.open_position = open2,
                  !.capital = capital1,
                  !.equity_curve = Append(b.equity_curve, capital1)]

\* one iteration of the loop of BacktestEngine.run, on the bar labelled bt.i
BacktestEngine_run_bar ==
    /\ bt.i < Len(bt.data)
    /\ bt' = run_bar(bt)
    /\ last_op' = "backtest_bar"
    /\ UNCHANGED <<live_vars, ts, sizer, gate, pa, loop>>

\* fetch_training_data: SELECT * FROM signals WHERE outcome IS NOT NULL
fetch_training_data(store) ==
    {id \in 1..Len(store) : store[id].outcome # None}

(***************************************************************************)
(* signal_generation/signal_aggregator.py, ai_analysis/signal_filter.py     *)
(***************************************************************************)
MaxInsights ==
    2

\* redis calls of the aggregator that raise (connection errors caught by run)
MaxFaults ==
    2

\* the symbols of the keys insight:<symbol>:magnitude_prediction
GateSymbols ==
    {"AAPL"}

\* confidence of a stored prediction, on the 0-1 scale
Confidences ==
    {Rat(0, 1), Rat(84996, 100000), Rat(85, 100), Rat(9, 10)}

\* no value is stored under the key
NoInsight ==
    [id |-> 0, confidence |-> Zero, direction |-> "BULLISH"]

\* SignalFilter.model: not loaded, or a classifier giving this probability of 'WIN'
NoModel ==
    [loaded |-> FALSE, win_probability |-> Zero]

FilterModels ==
    {NoModel} \cup {[loaded |-> TRUE, win_probability |-> p] :
                      p \in {Rat(1, 2), Rat(65, 100), Rat(3, 4)}}

MarketRegimes ==
    {"BULLISH", "BEARISH", "SIDEWAYS"}

\* SignalFilter.should_approve_signal
should_approve_signal(model, signal_data, market_regime) ==
    IF ~model.loaded
    THEN TRUE
    ELSE RLe(Rat(65, 100), model.win_probability)

\* round(x, 2) of a non-negative x
Round2(x) ==
    Rat((2 * 100 * x.n + x.d) \div (2 * x.d), 100)

evaluate_decision_rounded(prediction) ==
    LET confidence == RMul(prediction.confidence, R(100))
    IN  IF RLt(Round2(confidence), MIN_CONFIDENCE_SCORE) THEN "reject" ELSE "publish"

\* evaluate_prediction, from the fetched prediction to the branch taken
evaluate_decision(prediction) ==
    LET confidence == RMul(prediction.confidence, R(100))
    IN  IF RLt(confidence, MIN_CONFIDENCE_SCORE) THEN "reject" ELSE "publish"

\* the message evaluate_prediction publishes; prediction is the stored insight it was
\* built from
final_signal(symbol, prediction) ==
    [symbol |-> symbol, direction |-> prediction.direction,
     confidence_score |-> Round2(RMul(prediction.confidence, R(100))),
     prediction |-> prediction]

redis_delete_kept(store, key) ==
    store

\* redis DEL key
redis_delete(store, key) ==
    [store EXCEPT ![key] = NoInsight]

GateNew(model) ==
    [store |-> [k \in GateSymbols |-> NoInsight], stored |-> 0, faults |-> 0,
     pc |-> "idle", key |-> None, prediction |-> NoInsight,
     published |-> <<>>, admitted |-> {}, rejected |-> {}, completed |-> {},
     model |-> model]

GateInit ==
    \E model \in FilterModels : gate = GateNew(model)

GateIdle ==
    gate = GateNew(NoModel)

\* EnsembleManager.store_insight(symbol, 'magnitude_prediction', prediction, 3600)
EnsembleManager_store_insight ==
    /\ gate.pc # "cancelled"
    /\ gate.stored < MaxInsights
    /\ \E symbol \in GateSymbols, confidence \in Confidences, direction \in Directions :
          gate' = [gate EXCEPT
                      !.stored = gate.stored + 1,
                      !.store[symbol] = [id |-> gate.stored + 1, confidence |-> confidence,
                                         direction |-> direction]]
    /\ last_op' = "store_insight"
    /\ UNCHANGED <<live_vars, ts, sizer, bt, pa, loop>>

\* the key reaches its time to live
InsightExpires ==
    /\ \E symbol \in GateSymbols :
          /\ gate.store[symbol] # NoInsight
          /\ gate' = [gate EXCEPT !.store[symbol] = NoInsight]
    /\ last_op' = "expire"
    /\ UNCHANGED <<live_vars, ts, sizer, bt, pa, loop>>

\* SignalAggregator.run: the scan yields a stored key and evaluate_prediction is entered
SignalAggregator_run ==
    /\ gate.pc = "idle"
    /\ \E symbol \in GateSymbols :
          /\ gate.store[symbol] # NoInsight
          /\ gate' = [gate EXCEPT !.pc = "get", !.key = symbol]
    /\ last_op' = "scan"
    /\ UNCHANGED <<live_vars, ts, sizer, bt, pa, loop>>

\* a redis call of the evaluation raises: the exception is logged by run, which goes
\* on to its next scan
GateRaise ==
    /\ gate.pc \in {"get", "publish", "delete"}
    /\ gate.faults < MaxFaults
    /\ gate' = [gate EXCEPT !.faults = gate.faults + 1, !.pc = "idle", !.key = None,
                            !.prediction = NoInsight]
    /\ last_op' = "raised"
    /\ UNCHANGED <<live_vars, ts, sizer, bt, pa, loop>>

\* evaluate_prediction up to its first redis write: the value is fetched and the
\* confidence compared with the threshold
evaluate_prediction_get ==
    /\ gate.pc = "get"
    /\ LET prediction == gate.store[gate.key]
       IN  IF prediction = NoInsight
           THEN gate' = [gate EXCEPT !.pc = "idle", !.key = None]
           ELSE IF evaluate_decision(prediction) = "reject"
                THEN gate' = [gate EXCEPT !.pc = "delete", !.prediction = prediction,
                                          !.rejected = gate.rejected \cup {prediction}]
                ELSE gate' = [gate EXCEPT !.pc = "publish", !.prediction = prediction,
                                          !.admitted = gate.admitted \cup {prediction}]
    /\ last_op' = "get"
    /\ UNCHANGED <<live_vars, ts, sizer, bt, pa, loop>>

\* evaluate_prediction: the final signal is published on trade_signals
evaluate_prediction_publish ==
    /\ gate.pc = "publish"
    /\ gate' = [gate EXCEPT
                   !.published = Append(gate.published,
                                        final_signal(gate.key, gate.prediction)),
                   !.pc = "delete"]
    /\ last_op' = "publish"
    /\ UNCHANGED <<live_vars, ts, sizer, bt, pa, loop>>

\* evaluate_prediction: the key is deleted and the evaluation returns
evaluate_prediction_delete ==
    /\ gate.pc = "delete"
    /\ gate' = [gate EXCEPT
                   !.store = redis_delete(gate.store, gate.key),
                   !.completed = gate.completed \cup {gate.prediction},
                   !.pc = "idle", !.key = None, !.prediction = NoInsight]
    /\ last_op' = "delete"
    /\ UNCHANGED <<live_vars, ts, sizer, bt, pa, loop>>

\* TradingSystem.shutdown cancels every task that is not done: the aggregator is
\* stopped at the await it is suspended in (the sleep between scans, or the redis get,
\* publish or delete of an evaluation) and the producer with it
TradingSystem_shutdown ==
    /\ gate.pc # "cancelled"
    /\ gate' = [gate EXCEPT !.pc = "cancelled"]
    /\ last_op' = "shutdown"
    /\ UNCHANGED <<live_vars, ts, sizer, bt, pa, loop>>

(***************************************************************************)
(* PerformanceAnalyzer                                                     *)
(***************************************************************************)
MaxCurve ==
    4

MaxLog ==
    2

EquityValues ==
    {90, 95, 100, 110}

\* a row of the trade log: a dict that has a 'pnl' key once the trade is closed
TradeRows ==
    {[has_pnl |-> FALSE, pnl |-> 0]} \cup {[has_pnl |-> TRUE, pnl |-> p] : p \in {-5, 10}}

EquityCurves ==
    UNION {[1..n -> EquityValues] : n \in 1..MaxCurve}

TradeLogs ==
    UNION {[1..n -> TradeRows] : n \in 0..MaxLog}

MetricKeys ==
    {"Net Profit", "Total Trades", "Win Rate", "Profit Factor", "Average Win",
     "Average Loss", "Win/Loss Ratio", "Sharpe Ratio", "Sortino Ratio", "CAGR",
     "Max Drawdown"}

PaNew(log, equity_curve) ==
    [trades |-> log, equity_curve |-> equity_curve, called |-> None, raised |-> None,
     metrics |-> {}, total_trades |-> 0, net_profit |-> Zero, max_drawdown |-> Zero]

PaInit ==
    \E log \in TradeLogs, equity_curve \in EquityCurves : pa = PaNew(log, equity_curve)

PaIdle ==
    pa = PaNew(<<>>, <<>>)

\* equity_curve.cummax() at row k
RECURSIVE cummax(_, _)
cummax(equity_curve, k) ==
    IF k = 1
    THEN equity_curve[1]
    ELSE IF cummax(equity_curve, k - 1) < equity_curve[k]
         THEN equity_curve[k]
         ELSE cummax(equity_curve, k - 1)

\* the smallest of xs[1..n]
RECURSIVE SeriesMin(_, _)
SeriesMin(xs, n) ==
    IF n = 1 THEN xs[1] ELSE RMin(SeriesMin(xs, n - 1), xs[n])

\* the drawdown measured against the first value of the curve
calculate_max_drawdown_from_start(equity_curve) ==
    LET drawdown == [k \in 1..Len(equity_curve) |->
                        RDiv(RSub(R(equity_curve[k]), R(equity_curve[1])), R(equity_curve[1]))]
    IN  RAbs(SeriesMin(drawdown, Len(equity_curve)))

calculate_max_drawdown(equity_curve) ==
    LET roll_max == [k \in 1..Len(equity_curve) |-> cummax(equity_curve, k)]
        drawdown == [k \in 1..Len(equity_curve) |->
                        RDiv(RSub(R(equity_curve[k]), R(roll_max[k])), R(roll_max[k]))]
    IN  RAbs(SeriesMin(drawdown, Len(equity_curve)))

\* pnl[pnl > 0].sum() - abs(pnl[pnl < 0].sum()) over rows 1..n; a row without 'pnl' is NaN in
\* the column and passes neither filter
RECURSIVE NetProfit(_, _)
NetProfit(log, n) ==
    IF n = 0
    THEN 0
    ELSE IF log[n].has_pnl THEN NetProfit(log, n - 1) + log[n].pnl ELSE NetProfit(log, n - 1)

\* calculate_metrics: [raised, metrics, total_trades, net_profit, max_drawdown]
calculate_metrics(log, equity_curve) ==
    IF log = <<>>
    THEN [raised |-> None, metrics |-> {"error"}, total_trades |-> 0, net_profit |-> Zero,
          max_drawdown |-> Zero]
    ELSE IF \A j \in 1..Len(log) : ~log[j].has_pnl
         THEN [raised |-> "KeyError", metrics |-> {}, total_trades |-> Len(log),
               net_profit |-> Zero, max_drawdown |-> Zero]
         ELSE [raised |-> None, metrics |-> MetricKeys, total_trades |-> Len(log),
               net_profit |-> R(NetProfit(log, Len(log))),
               max_drawdown |-> calculate_max_drawdown(equity_curve)]

PerformanceAnalyzer_calculate_max_drawdown ==
    /\ pa.equity_curve # <<>>
    /\ pa' = [pa EXCEPT !.called = "calculate_max_drawdown", !.raised = None,
                        !.metrics = {}, !.total_trades = 0, !.net_profit = Zero,
                        !.max_drawdown = calculate_max_drawdown(pa.equity_curve)]
    /\ last_op' = "calculate_max_drawdown"
    /\ UNCHANGED <<live_vars, ts, sizer, bt, gate, loop>>

PerformanceAnalyzer_calculate_metrics ==
    /\ pa.equity_curve # <<>>
    /\ LET result == calculate_metrics(pa.trades, pa.equity_curve)
       IN  pa' = [pa EXCEPT !.called = "calculate_metrics", !.raised = result.raised,
                           !.metrics = result.metrics,
                           !.total_trades = result.total_trades,
                           !.net_profit = result.net_profit,
                           !.max_drawdown = result.max_drawdown]
    /\ last_op' = "calculate_metrics"
    /\ UNCHANGED <<live_vars, ts, sizer, bt, gate, loop>>

(***************************************************************************)
(* The periodic loops: SignalAggregator.run and PortfolioMonitor.run       *)
(***************************************************************************)
\* cycles a loop is followed for
MaxTicks ==
    3

\* keys found by one scan, or open trades fetched by one tick
MaxItems ==
    3

Components ==
    {"SignalAggregator", "PortfolioMonitor"}

\* pc: "sleep" in asyncio.sleep between cycles, "for" inside the for loop of a cycle,
\* "terminated" when run has returned or raised; outcome[k] is what became of the k-th
\* key or trade of the current cycle
LoopNew(component) ==
    [component |-> component, pc |-> "sleep", ticks |-> 0, items |-> 0, i |-> 0,
     outcome |-> <<>>, errors |-> 0]

LoopInit ==
    \E component \in Components : loop = LoopNew(component)

LoopIdle ==
    loop = LoopNew("SignalAggregator")

\* the sleep ends and the next iteration of 'while True' enters its try block: the scan
\* yields its keys (get_open_trades returns its rows); with none the cycle is over at once
run_cycle ==
    /\ loop.pc = "sleep"
    /\ loop.ticks < MaxTicks
    /\ \E n \in 0..MaxItems :
          loop' = [loop EXCEPT !.ticks = loop.ticks + 1, !.items = n,
                               !.i = IF n = 0 THEN 0 ELSE 1,
                               !.outcome = [k \in 1..n |-> "pending"],
                               !.pc = IF n = 0 THEN "sleep" ELSE "for"]
    /\ last_op' = "cycle"
    /\ UNCHANGED <<live_vars, ts, sizer, bt, gate, pa>>

\* the loop body returns for the current key or trade: it was evaluated, or it was
\* skipped because its value or price is unavailable ('return' / 'continue')
run_item ==
    /\ loop.pc = "for"
    /\ \E result \in {"processed", "skipped"} :
          loop' = [loop EXCEPT !.outcome[loop.i] = result,
                               !.i = IF loop.i = loop.items THEN 0 ELSE loop.i + 1,
                               !.pc = IF loop.i = loop.items THEN "sleep" ELSE "for"]
    /\ last_op' = "item"
    /\ UNCHANGED <<live_vars, ts, sizer, bt, gate, pa>>

\* an exception that ends the task instead of being logged
run_except_fatal ==
    /\ loop.pc = "for"
    /\ loop' = [loop EXCEPT !.outcome[loop.i] = "raised", !.errors = loop.errors + 1,
                            !.i = 0, !.pc = "terminated"]
    /\ last_op' = "except"
    /\ UNCHANGED <<live_vars, ts, sizer, bt, gate, pa>>

\* the loop body raises for the current key or trade: the exception leaves the for loop,
\* is caught by 'except Exception' of run and logged, and run goes to its sleep
run_except ==
    /\ loop.pc = "for"
    /\ loop' = [loop EXCEPT !.outcome[loop.i] = "raised", !.errors = loop.errors + 1,
                            !.i = 0, !.pc = "sleep"]
    /\ last_op' = "except"
    /\ UNCHANGED <<live_vars, ts, sizer, bt, gate, pa>>

(***************************************************************************)
(* Specifications                                                          *)
(***************************************************************************)
LiveInit ==
    /\ redis_price = [s \in Symbols |-> NoPrice]
    /\ signals = <<>>
    /\ trades = <<>>
    /\ is_trading_halted = FALSE
    /\ loss_alerts = 0
    /\ daily_drawdown = [computed |-> FALSE, value |-> Zero]
    /\ last_op = "init"

\* the live system: price feed, executors and portfolio monitor
Init ==
    LiveInit /\ TsIdle /\ SizerIdle /\ BtIdle /\ GateIdle /\ PaIdle /\ LoopIdle

Next ==
    \/ PriceFeed
    \/ PaperTrader_process_signal
    \/ LiveBroker_place
    \/ PortfolioMonitor_run

Spec ==
    Init /\ [][Next]_vars

\* the stop functions: a call of get_volatility_adjusted_stop_loss, and a stop trailed
\* by successive trailing_stop calls
InitStop ==
    LiveInit /\ TsInit /\ SizerIdle /\ BtIdle /\ GateIdle /\ PaIdle /\ LoopIdle

NextStop ==
    \/ InitialStopCall
    \/ TrailingStopCall

SpecStop ==
    InitStop /\ [][NextStop]_vars

\* a position sizer: a PositionSizer of either strategy, or a SimpleSizer
InitSizer ==
    LiveInit /\ TsIdle /\ SizerInit /\ BtIdle /\ GateIdle /\ PaIdle /\ LoopIdle

NextSizer ==
    \/ PositionSizer_calculate_size
    \/ SimpleSizer_call

SpecSizer ==
    InitSizer /\ [][NextSizer]_vars

\* a backtest run over one series
InitBacktest ==
    LiveInit /\ TsIdle /\ SizerIdle /\ BtInit /\ GateIdle /\ PaIdle /\ LoopIdle

NextBacktest ==
    BacktestEngine_run_bar

SpecBacktest ==
    InitBacktest /\ [][NextBacktest]_vars

\* the signal gate: insights stored by the ensemble manager, scanned and evaluated by
\* the signal aggregator
InitGate ==
    LiveInit /\ TsIdle /\ SizerIdle /\ BtIdle /\ GateInit /\ PaIdle /\ LoopIdle

NextGate ==
    \/ EnsembleManager_store_insight
    \/ InsightExpires
    \/ SignalAggregator_run
    \/ TradingSystem_shutdown
    \/ GateRaise
    \/ evaluate_prediction_get
    \/ evaluate_prediction_publish
    \/ evaluate_prediction_delete

SpecGate ==
    InitGate /\ [][NextGate]_vars

\* a PerformanceAnalyzer over a trade log and an equity curve
InitAnalyzer ==
    LiveInit /\ TsIdle /\ SizerIdle /\ BtIdle /\ GateIdle /\ PaInit /\ LoopIdle

NextAnalyzer ==
    \/ PerformanceAnalyzer_calculate_max_drawdown
    \/ PerformanceAnalyzer_calculate_metrics

SpecAnalyzer ==
    InitAnalyzer /\ [][NextAnalyzer]_vars

\* a periodic loop; asyncio.sleep returns, so a sleeping loop gets its next cycle
InitLoops ==
    LiveInit /\ TsIdle /\ SizerIdle /\ BtIdle /\ GateIdle /\ PaIdle /\ LoopInit

NextLoops ==
    \/ run_cycle
    \/ run_item
    \/ run_except

SpecLoops ==
    InitLoops /\ [][NextLoops]_vars /\ WF_vars(run_cycle)


(***************************************************************************)
(* Properties of the live system (Spec)                                    *)
(***************************************************************************)
\* C1: while a trade is open its stored stop_loss never moves against the trader:
\* every step leaves it >= the previous value for a BULLISH trade and <= it for a
\* BEARISH one (the store is only ever appended to; no operation rewrites a stop)
C1_StopNeverMovesAgainstTrader ==
    [][\A i \in 1..Len(trades) :
          (i <= Len(trades') /\ trades[i].status = "open" /\ trades'[i].status = "open")
          => /\ trades[i].direction = "BULLISH"
                => RLe(trades[i].stop_loss, trades'[i].stop_loss)
             /\ trades[i].direction = "BEARISH"
                => RLe(trades'[i].stop_loss, trades[i].stop_loss)]_vars

\* an open trade has been through a later admission and an evaluating monitor tick
C1_Witness ==
    /\ Len(trades) >= 2
    /\ trades[1].status = "open"
    /\ last_op = "monitor_check"
    /\ daily_drawdown.computed

RECURSIVE Deployed(_, _)
Deployed(store, n) ==
    IF n = 0
    THEN Zero
    ELSE IF store[n].status = "open"
         THEN RAdd(Deployed(store, n - 1), RMul(store[n].entry_price, store[n].position_size))
         ELSE Deployed(store, n - 1)

\* C5: the capital deployed in open trades (sum of entry_price x position_size) never
\* exceeds MAX_PORTFOLIO_EXPOSURE x capital
C5_ExposureWithinCeiling ==
    RLe(Deployed(trades, Len(trades)), RMul(MAX_PORTFOLIO_EXPOSURE, R(PortfolioCapital)))

\* the atr process_signal computes from a frame of price history
AdmissionAtr(price_history) ==
    IF price_history.bars = <<>> THEN Zero ELSE calculate_atr(price_history, ATR_PERIOD)

\* the fixed 5% stop of a trade row
FallbackStop(trade) ==
    IF trade.direction = "BULLISH"
    THEN REq(RMul(trade.stop_loss, R(100)), RMul(trade.entry_price, R(95)))
    ELSE REq(RMul(trade.stop_loss, R(100)), RMul(trade.entry_price, R(105)))

\* C14: on a history shorter than the period or without a high, low or close column
\* calculate_atr returns 0, and the admission then opens the trade with the fixed 5%
\* stop: an admission that saves its signal also saves an open trade whose stop is
\* entry x 0.95 (BULLISH) or entry x 1.05 (BEARISH)
C14_AdmissionOpensWithFallbackStop ==
    /\ [](\A h \in Histories :
             (Len(h.bars) < ATR_PERIOD \/ ~({"high", "low", "close"} \subseteq h.columns))
             => REq(AdmissionAtr(h), Zero))
    /\ [][(last_op' = "process_signal" /\ Len(signals') = Len(signals) + 1)
          => /\ Len(trades') = Len(trades) + 1
             /\ trades'[Len(trades')].status = "open"
             /\ FallbackStop(trades'[Len(trades')])]_vars

\* C19: an admission with an available price and a size > 0 persists exactly one Signal
\* and exactly one open Trade that references the signal's id, entered at the fetched
\* price with the computed stop and size
C19_AdmissionPersistsSignalAndTrade ==
    [][(last_op' = "process_signal" /\ \A s \in Symbols : get_current_price(s) # NoPrice)
       => /\ Len(signals') = Len(signals) + 1
          /\ Len(trades') = Len(trades) + 1
          /\ LET trade == trades'[Len(trades')]
                 signal == signals'[Len(signals')]
             IN  /\ trade.status = "open"
                 /\ trade.signal_id = Len(signals')
                 /\ trade.entry_price = R(get_current_price(signal.symbol))
                 /\ \E h \in Histories :
                       LET a == Admission(signal, get_current_price(signal.symbol), h)
                       IN  /\ RLt(Zero, a.size)
                           /\ trade.stop_loss = a.stop_loss
                           /\ trade.position_size = a.size]_vars

\* C20: an admission that aborts because the price is unavailable or the size is <= 0
\* leaves the store unchanged: a process_signal step taken without a price persists
\* nothing, and a step that persists anything had a price and a size > 0
C20_AbortLeavesStoreUnchanged ==
    [][last_op' = "process_signal"
       => /\ (\A s \in Symbols : get_current_price(s) = NoPrice)
             => UNCHANGED <<signals, trades>>
          /\ ~(UNCHANGED <<signals, trades>>)
             => LET signal == signals'[Len(signals')]
                    current_price == get_current_price(signal.symbol)
                IN  /\ Len(signals') = Len(signals) + 1
                    /\ current_price # NoPrice
                    /\ \E h \in Histories :
                          LET a == Admission(signal, current_price, h)
                          IN  a.raised = None /\ RLt(Zero, a.size)]_vars

\* an admission was tried without a cached price after a signal and a trade were stored
C20_Witness ==
    /\ last_op = "process_signal"
    /\ \A s \in Symbols : get_current_price(s) = NoPrice
    /\ Len(signals) >= 1
    /\ Len(trades) >= 1

(***************************************************************************)
(* Properties of the backtest (SpecBacktest)                               *)
(***************************************************************************)
BtClosedTrades ==
    {j \in 1..Len(bt.trades) : bt.trades[j].closed}

\* C4: every trade that reaches CLOSED has produced exactly one SignalOutcome by the end
\* of the run: the outcomes recorded are as many as the closed trades
C4_OneOutcomePerClosedTrade ==
    (Len(bt.data) > 0 /\ bt.i = Len(bt.data))
    => Cardinality(fetch_training_data(signals)) = Cardinality(BtClosedTrades)

\* the adverse crossing of the claim, on the bar about to be replayed
BtCrossed(position, price) ==
    \/ position.direction = "LONG" /\ RLe(price, position.stop_loss)
    \/ position.direction = "SHORT" /\ RLe(position.stop_loss, price)

\* C6: a position closes on a bar if and only if that bar's price crosses its stop in
\* the adverse direction, and the pnl recorded at the close is
\* (exit - entry) x size x (+1 LONG, -1 SHORT)
C6_ClosesIffStopCrossed ==
    /\ [](\A j \in BtClosedTrades :
             REq(bt.trades[j].pnl,
                 RMul(RMul(RSub(bt.trades[j].exit_price, bt.trades[j].entry_price),
                           bt.trades[j].size),
                      R(IF bt.trades[j].direction = "LONG" THEN 1 ELSE -1))))
    /\ [][/\ bt.open_position # 0
             => (bt'.trades[bt.open_position].closed
                 <=> BtCrossed(bt.trades[bt.open_position], R(bt.data[bt.i + 1])))
          /\ \A j \in 1..Len(bt.trades) :
                (~bt.trades[j].closed /\ bt'.trades[j].closed) => j = bt.open_position]_vars

\* a SHORT position has been closed at a loss by a price at or above its stop
C6_Witness ==
    \E j \in BtClosedTrades :
       /\ bt.trades[j].direction = "SHORT"
       /\ RLt(bt.trades[j].pnl, Zero)
       /\ RLe(bt.trades[j].stop_loss, bt.trades[j].exit_price)

(***************************************************************************)
(* Properties of trailing_stop (SpecStop)                                  *)
(***************************************************************************)
\* C7: for every input, atr <= 0 included, a call returns a stop >= the existing one
\* for BULLISH and <= it for BEARISH, so a chain of calls never moves the stop against
\* the trade; price 105, stop 100, atr 2, multiplier 1 gives 103, and price 101 keeps 103
C7_TrailingStopMonotone ==
    /\ [][/\ ts.direction = "BULLISH" => RLe(ts.stop, ts'.stop)
          /\ ts.direction = "BEARISH" => RLe(ts'.stop, ts.stop)]_vars
    /\ []((/\ ts.calls > 0
           /\ ts.direction = "BULLISH"
           /\ ts.atr = R(2)
           /\ ts.multiplier = R(1)
           /\ \/ ts.current_price = R(105) /\ ts.existing_stop = R(100)
              \/ ts.current_price = R(101) /\ ts.existing_stop = R(103))
          => ts.stop = R(103))

\* the chain of the example: 103 kept when the price falls back to 101
C7_Witness ==
    /\ ts.calls = 2
    /\ ts.direction = "BULLISH"
    /\ ts.existing_stop = R(103)
    /\ ts.current_price = R(101)
    /\ ts.atr = R(2)
    /\ ts.stop = R(103)

TsTrail ==
    IF ts.direction = "BULLISH"
    THEN RMax(ts.existing_stop, RSub(ts.current_price, RMul(ts.atr, ts.multiplier)))
    ELSE RMin(ts.existing_stop, RAdd(ts.current_price, RMul(ts.atr, ts.multiplier)))

\* C8 as stated: for every input the result is max(existing_stop, price - atr x multiplier)
\* for BULLISH and min(existing_stop, price + atr x multiplier) for BEARISH
C8_ExactlyMaxMinForEveryInput ==
    ts.calls > 0 => REq(ts.stop, TsTrail)

\* C8 amended: that value is returned when atr > 0; when atr <= 0 the existing stop is
\* returned unchanged
C8_ExactlyMaxMinWhenAtrPositive ==
    ts.calls > 0
    => IF RLt(Zero, ts.atr)
       THEN REq(ts.stop, TsTrail)
       ELSE REq(ts.stop, ts.existing_stop)

\* a BULLISH call with atr <= 0 and a price above the existing stop
C8_Witness ==
    /\ ts.calls > 0
    /\ ts.direction = "BULLISH"
    /\ RLe(ts.atr, Zero)
    /\ RLt(ts.existing_stop, ts.current_price)

\* C13: get_volatility_adjusted_stop_loss returns entry - atr x multiplier for BULLISH
\* and entry + atr x multiplier for BEARISH when atr > 0, and entry x 0.95 (BULLISH) or
\* entry x 1.05 (BEARISH) when atr <= 0
C13_InitialStop ==
    last_op = "initial_stop"
    => IF RLt(Zero, ts.atr)
       THEN IF ts.direction = "BULLISH"
            THEN REq(ts.initial_stop, RSub(ts.entry_price, RMul(ts.atr, ts.multiplier)))
            ELSE REq(ts.initial_stop, RAdd(ts.entry_price, RMul(ts.atr, ts.multiplier)))
       ELSE IF ts.direction = "BULLISH"
            THEN REq(RMul(ts.initial_stop, R(100)), RMul(ts.entry_price, R(95)))
            ELSE REq(RMul(ts.initial_stop, R(100)), RMul(ts.entry_price, R(105)))

\* a BEARISH initial stop computed with a negative atr: the fallback 5% above the entry
C13_Witness ==
    /\ last_op = "initial_stop"
    /\ ts.direction = "BEARISH"
    /\ RLt(ts.atr, Zero)
    /\ RLt(ts.entry_price, ts.initial_stop)

(***************************************************************************)
(* Properties of the position sizer (SpecSizer)                            *)
(***************************************************************************)
\* C9: with entry # stop the fixed-fractional size is strictly positive and equals
\* capital x MAX_RISK_PER_TRADE / |entry - stop|
C9_FixedFractionalSize ==
    (sizer.called /\ sizer.strategy = "fixed_fractional"
     /\ ~REq(sizer.entry_price, sizer.stop_loss_price))
    => /\ RLt(Zero, sizer.size)
       /\ REq(RMul(sizer.size, RAbs(RSub(sizer.entry_price, sizer.stop_loss_price))),
              RMul(R(sizer.total_capital), MAX_RISK_PER_TRADE))

\* a fixed-fractional call with the stop above the entry
C9_Witness ==
    /\ sizer.called
    /\ sizer.strategy = "fixed_fractional"
    /\ RLt(sizer.entry_price, sizer.stop_loss_price)
    /\ RLt(Zero, sizer.size)

\* C10 as stated: whenever win_probability <= (1 - win_probability) x win_loss_ratio
\* the Kelly size is exactly 0
C10_ZeroWhenProbAtMostLossTimesRatio ==
    (sizer.called /\ sizer.strategy = "kelly_criterion"
     /\ RLe(sizer.win_probability,
            RMul(RSub(R(1), sizer.win_probability), sizer.avg_win_loss_ratio)))
    => REq(sizer.size, Zero)

\* C10 amended: whenever win_loss_ratio > 0 and
\* win_probability <= (1 - win_probability) / win_loss_ratio the Kelly size is exactly 0
C10_ZeroWhenProbAtMostLossOverRatio ==
    (sizer.called /\ sizer.strategy = "kelly_criterion"
     /\ RLt(Zero, sizer.avg_win_loss_ratio)
     /\ RLe(sizer.win_probability,
            RDiv(RSub(R(1), sizer.win_probability), sizer.avg_win_loss_ratio)))
    => REq(sizer.size, Zero)

\* a no-edge Kelly call on distinct prices that the stated condition does not cover
C10_Witness ==
    /\ sizer.called
    /\ sizer.strategy = "kelly_criterion"
    /\ ~REq(sizer.entry_price, sizer.stop_loss_price)
    /\ RLt(Zero, sizer.avg_win_loss_ratio)
    /\ RLe(sizer.win_probability,
           RDiv(RSub(R(1), sizer.win_probability), sizer.avg_win_loss_ratio))
    /\ ~RLe(sizer.win_probability,
            RMul(RSub(R(1), sizer.win_probability), sizer.avg_win_loss_ratio))
    /\ REq(sizer.size, Zero)

\* the Kelly fraction f = win_probability - (1 - win_probability) / win_loss_ratio of
\* the latest call (defined when win_loss_ratio # 0)
SizerKellyF ==
    RSub(sizer.win_probability,
         RDiv(RSub(R(1), sizer.win_probability), sizer.avg_win_loss_ratio))

SizerRiskPerShare ==
    RAbs(RSub(sizer.entry_price, sizer.stop_loss_price))

\* size = 0 when f <= 0, and size x |entry - stop| = capital x min(f / 2, MAX_RISK_PER_TRADE)
\* otherwise
SizerKellyDamped ==
    IF RLe(SizerKellyF, Zero)
    THEN REq(sizer.size, Zero)
    ELSE REq(RMul(sizer.size, SizerRiskPerShare),
             RMul(R(sizer.total_capital),
                  RMin(RMul(Rat(1, 2), SizerKellyF), MAX_RISK_PER_TRADE)))

\* C11 as stated: for every Kelly call on which f and the quotient are defined
\* (win_loss_ratio # 0, entry # stop) the size is 0 when f <= 0 and otherwise
\* capital x min(0.5 x f, MAX_RISK_PER_TRADE) / |entry - stop|
C11_KellyDampedForEveryRatio ==
    (sizer.called /\ sizer.strategy = "kelly_criterion"
     /\ ~REq(sizer.avg_win_loss_ratio, Zero)
     /\ ~REq(sizer.entry_price, sizer.stop_loss_price))
    => SizerKellyDamped

\* C11 amended: that holds for win_loss_ratio > 0 and entry # stop; for
\* win_loss_ratio <= 0 or entry = stop the size is 0; and on every Kelly call the
\* amount at risk at the stop, size x |entry - stop|, is at most
\* capital x MAX_RISK_PER_TRADE
C11_KellyDampedForPositiveRatio ==
    (sizer.called /\ sizer.strategy = "kelly_criterion")
    => /\ IF RLt(Zero, sizer.avg_win_loss_ratio)
             /\ ~REq(sizer.entry_price, sizer.stop_loss_price)
          THEN SizerKellyDamped
          ELSE REq(sizer.size, Zero)
       /\ RLe(RMul(sizer.size, SizerRiskPerShare),
               RMul(R(sizer.total_capital), MAX_RISK_PER_TRADE))

\* a Kelly call with an edge small enough that the halved fraction, not the clamp,
\* sets the size, although the undamped fraction is above MAX_RISK_PER_TRADE
C11_Witness ==
    /\ sizer.called
    /\ sizer.strategy = "kelly_criterion"
    /\ RLt(Zero, sizer.avg_win_loss_ratio)
    /\ RLt(MAX_RISK_PER_TRADE, SizerKellyF)
    /\ RLt(RMul(Rat(1, 2), SizerKellyF), MAX_RISK_PER_TRADE)
    /\ RLt(Zero, sizer.size)

\* C12: every sizer returns a quantity >= 0 and never raises; it returns 0 when
\* entry_price equals stop_price and, for Kelly, when win_loss_ratio <= 0
C12_SizersFailClosed ==
    sizer.called
    => /\ sizer.raised = None
       /\ RLe(Zero, sizer.size)
       /\ REq(sizer.entry_price, sizer.stop_loss_price) => REq(sizer.size, Zero)
       /\ (sizer.strategy = "kelly_criterion" /\ RLe(sizer.avg_win_loss_ratio, Zero))
          => REq(sizer.size, Zero)

(***************************************************************************)
(* Properties of the signal gate (SpecGate)                                *)
(***************************************************************************)
GateBelowThreshold(prediction) ==
    RLt(RMul(prediction.confidence, R(100)), MIN_CONFIDENCE_SCORE)

GatePublishedInsights ==
    {gate.published[i].prediction : i \in 1..Len(gate.published)}

\* C15: a signal is emitted for an insight only if its confidence x 100 is >=
\* MIN_CONFIDENCE_SCORE = 85: no message on trade_signals was built from an insight
\* below the threshold, and an insight found below it is rejected, never admitted
C15_PublishedOnlyAtOrAboveThreshold ==
    /\ MIN_CONFIDENCE_SCORE = R(85)
    /\ \A prediction \in GatePublishedInsights \cup gate.admitted :
          ~GateBelowThreshold(prediction)
    /\ \A prediction \in gate.rejected :
          GateBelowThreshold(prediction) /\ prediction \notin GatePublishedInsights

\* an insight at exactly 85 was published, and one that rounds to 85.00 was rejected
\* and deleted
C15_Witness ==
    /\ \E prediction \in GatePublishedInsights : prediction.confidence = Rat(85, 100)
    /\ \E prediction \in gate.rejected \cap gate.completed :
          prediction.confidence = Rat(84996, 100000)

C17_EmittedExactlyOnce ==
    /\ \A i, j \in 1..Len(gate.published) :
          i # j => gate.published[i].prediction # gate.published[j].prediction
    /\ \A prediction \in gate.admitted :
          (/\ prediction # gate.prediction
           /\ \A symbol \in GateSymbols : gate.store[symbol] # prediction)
          => prediction \in GatePublishedInsights

\* C18: with an approval model configured, a signal is emitted only if the model's
\* predicted win probability is >= 0.65; with no model every signal that passed the
\* confidence threshold is approved
C18_ModelVetoesBelowApprovalThreshold ==
    \A i \in 1..Len(gate.published), market_regime \in MarketRegimes :
       should_approve_signal(gate.model, gate.published[i], market_regime)

(***************************************************************************)
(* Further properties of the backtest (SpecBacktest)                       *)
(***************************************************************************)
\* C21: a trade closed on a stop breach records the stop price as its exit price
C21_ExitAtStopPrice ==
    \A j \in BtClosedTrades : REq(bt.trades[j].exit_price, bt.trades[j].stop_loss)

\* the frame of price history the replay has seen when it reaches row n of the series
BtHistory(data, n) ==
    [columns |-> {"close"}, bars |-> [k \in 1..n |-> [close |-> R(data[k])]]]

\* what the live admission computes for the entry of a backtest trade
BtLiveAdmission(trade) ==
    Admission([symbol |-> "AAPL",
               direction |-> IF trade.direction = "LONG" THEN "BULLISH" ELSE "BEARISH"],
              bt.data[trade.entry_date + 1],
              BtHistory(bt.data, trade.entry_date + 1))

\* C25: for the same entry price, direction, capital and bar history the backtest
\* computes the initial stop and the position size of the live admission path
C25_BacktestMatchesLiveAdmission ==
    bt.initial_capital = PortfolioCapital
    => \A j \in 1..Len(bt.trades) :
          /\ BtLiveAdmission(bt.trades[j]).raised = None
          /\ REq(bt.trades[j].stop_loss, BtLiveAdmission(bt.trades[j]).stop_loss)
          /\ REq(bt.trades[j].size, BtLiveAdmission(bt.trades[j]).size)

\* the engine about to replay the bar labelled b.i, on a series that agrees with its own
\* on bars 0..b.i and holds q on every later bar
BtWithFuture(b, q) ==
    [b EXCEPT !.data = [k \in 1..Len(b.data) |-> IF k <= b.i + 1 THEN b.data[k] ELSE q]]

\* C26: no look-ahead: what the engine does at bar i (close, open, stop, size) and
\* equity_curve[i] depend only on bars <= i: replaying bar i on a series that agrees on
\* bars 0..i gives the same trades, open position, capital and equity curve
C26_NoLookAhead ==
    [][bt.i < Len(bt.data)
       => \A q \in BtPrices :
             LET other == run_bar(BtWithFuture(bt, q))
             IN  /\ other.trades = bt'.trades
                 /\ other.open_position = bt'.open_position
                 /\ other.capital = bt'.capital
                 /\ other.equity_curve = bt'.equity_curve]_vars

\* a position was opened on a bar that is followed by bars at other prices
C26_Witness ==
    /\ bt.i = Len(bt.data)
    /\ \E j \in 1..Len(bt.trades) :
          /\ bt.trades[j].entry_date + 2 <= Len(bt.data)
          /\ bt.data[bt.trades[j].entry_date + 2] # bt.data[bt.trades[j].entry_date + 1]
          /\ bt.trades[j].closed

\* the pnl of the first n trades of the log that were closed at or before the bar
\* labelled k
RECURSIVE BtRealized(_, _, _)
BtRealized(log, n, k) ==
    IF n = 0
    THEN Zero
    ELSE IF log[n].closed /\ log[n].exit_date <= k
         THEN RAdd(BtRealized(log, n - 1, k), log[n].pnl)
         ELSE BtRealized(log, n - 1, k)

\* C27: the equity curve has one entry per replayed bar (one per input bar at the end
\* of the run), its first entry is initial_capital, and entry i is initial_capital plus
\* the pnl of the positions closed at or before bar i
C27_EquityCurvePerBar ==
    /\ Len(bt.equity_curve) = bt.i
    /\ bt.i <= Len(bt.data)
    /\ bt.i >= 1 => REq(bt.equity_curve[1], R(bt.initial_capital))
    /\ \A k \in 1..bt.i :
          REq(bt.equity_curve[k],
              RAdd(R(bt.initial_capital), BtRealized(bt.trades, Len(bt.trades), k - 1)))

\* a finished run in which a position was closed with a pnl other than 0 before the
\* last bar
C27_Witness ==
    /\ Len(bt.data) > 0
    /\ bt.i = Len(bt.data)
    /\ Len(bt.equity_curve) = Len(bt.data)
    /\ \E j \in BtClosedTrades :
          /\ ~REq(bt.trades[j].pnl, Zero)
          /\ bt.trades[j].exit_date + 1 < Len(bt.data)

BtRising(data) ==
    \A k \in 1..(Len(data) - 1) : data[k] <= data[k + 1]

\* C28: on a monotonically rising series no SHORT trade is opened and the equity curve
\* is non-decreasing
C28_RisingSeriesNeverShort ==
    BtRising(bt.data)
    => /\ \A j \in 1..Len(bt.trades) : bt.trades[j].direction # "SHORT"
       /\ \A k \in 1..(Len(bt.equity_curve) - 1) :
             RLe(bt.equity_curve[k], bt.equity_curve[k + 1])

\* a finished run on a series that rises from its first bar to its last, in which a
\* LONG position was opened
C28_Witness ==
    /\ Len(bt.data) > 0
    /\ BtRising(bt.data)
    /\ bt.data[1] < bt.data[Len(bt.data)]
    /\ bt.i = Len(bt.data)
    /\ \E j \in 1..Len(bt.trades) : bt.trades[j].direction = "LONG"

(***************************************************************************)
(* Further properties of the portfolio monitor (Spec)                      *)
(***************************************************************************)
\* the P&L of the first n rows of the store that are open, each at the cached price of
\* its symbol
RECURSIVE UnrealizedPnl(_, _)
UnrealizedPnl(store, n) ==
    IF n = 0
    THEN Zero
    ELSE IF store[n].status = "open"
         THEN RAdd(UnrealizedPnl(store, n - 1), TradePnl(store[n], redis_price[store[n].symbol]))
         ELSE UnrealizedPnl(store, n - 1)

\* C22: a monitor tick computes unrealized P&L as the sum over all open trades of
\* (current_price - entry_price) x size x direction_sign and daily_drawdown as
\* -(daily_realized_pnl + unrealized_pnl) / capital; no trade has been closed, so
\* daily_realized_pnl is 0
C22_DrawdownCountsEveryOpenTrade ==
    [][(/\ last_op' = "monitor_check"
        /\ get_open_trades(trades) # {}
        /\ \A i \in get_open_trades(trades) : redis_price[trades[i].symbol] # NoPrice)
       => /\ daily_drawdown'.computed
          /\ REq(daily_drawdown'.value,
                 RDiv(RNeg(RAdd(Zero, UnrealizedPnl(trades, Len(trades)))),
                      R(PortfolioCapital)))]_vars

RECURSIVE PeakToTrough(_, _)
PeakToTrough(equity_curve, n) ==
    LET here == RDiv(RSub(R(cummax(equity_curve, n)), R(equity_curve[n])),
                     R(cummax(equity_curve, n)))
    IN  IF n = 1 THEN here ELSE RMax(PeakToTrough(equity_curve, n - 1), here)

PaNonDecreasing(equity_curve) ==
    \A k \in 1..(Len(equity_curve) - 1) : equity_curve[k] <= equity_curve[k + 1]

\* C29: calculate_max_drawdown returns the maximum over the equity curve of
\* (running_peak - equity) / running_peak: (110 - 90)/110 for [100, 110, 90, 95], and 0
\* for a non-decreasing curve
C29_MaxDrawdownFromRunningPeak ==
    pa.called = "calculate_max_drawdown"
    => /\ REq(pa.max_drawdown, PeakToTrough(pa.equity_curve, Len(pa.equity_curve)))
       /\ pa.equity_curve = <<100, 110, 90, 95>> => REq(pa.max_drawdown, Rat(110 - 90, 110))
       /\ PaNonDecreasing(pa.equity_curve) => REq(pa.max_drawdown, Zero)

\* calculate_max_drawdown has run on the curve [100, 110, 90, 95]
C29_Witness ==
    /\ pa.called = "calculate_max_drawdown"
    /\ pa.equity_curve = <<100, 110, 90, 95>>
    /\ REq(pa.max_drawdown, Rat(2, 11))

\* C30: calculate_metrics returns only an error entry for an empty trade log, and for
\* every non-empty trade log returns the metrics, "Sortino Ratio" and "CAGR" among them
C30_MetricsForEveryNonEmptyLog ==
    pa.called = "calculate_metrics"
    => /\ pa.raised = None
       /\ IF pa.trades = <<>>
          THEN pa.metrics = {"error"}
          ELSE MetricKeys \subseteq pa.metrics

(***************************************************************************)
(* Properties of the backtest trade log (SpecBacktest)                     *)
(***************************************************************************)
\* C36: the engine holds at most one open position at any bar, the open one being the
\* last of the log, and every trade's entry bar is at or after the exit bar of the
\* trade before it
C36_AtMostOneOpenPosition ==
    /\ Cardinality({j \in 1..Len(bt.trades) : ~bt.trades[j].closed}) <= 1
    /\ bt.open_position # 0
       => (bt.open_position = Len(bt.trades) /\ ~bt.trades[bt.open_position].closed)
    /\ bt.open_position = 0 => \A j \in 1..Len(bt.trades) : bt.trades[j].closed
    /\ \A j \in 2..Len(bt.trades) :
          /\ bt.trades[j - 1].closed
          /\ bt.trades[j - 1].exit_date <= bt.trades[j].entry_date

\* a position was closed and the next one opened in the same bar
C36_Witness ==
    \E j \in 2..Len(bt.trades) :
       /\ bt.trades[j - 1].closed
       /\ bt.trades[j - 1].exit_date = bt.trades[j].entry_date

\* C37: every trade of the log returned by run carries exit_price, exit_date and pnl:
\* no position is still open when the series ends
C37_ReturnedLogHasNoOpenPosition ==
    bt.i = Len(bt.data) => \A j \in 1..Len(bt.trades) : bt.trades[j].closed

StopOnLossSide(direction, entry_price, stop_loss) ==
    RLt(Zero, entry_price)
    => /\ RLt(Zero, stop_loss)
       /\ direction = "BULLISH" => RLt(stop_loss, entry_price)
       /\ direction = "BEARISH" => RLt(entry_price, stop_loss)
       /\ RLt(Zero, RAbs(RSub(entry_price, stop_loss)))

\* C40: for every admitted trade with a positive entry price the initial stop is a
\* positive price strictly on the loss side of the entry (0 < stop < entry for BULLISH,
\* stop > entry for BEARISH), for every atr the admission path computes from a frame
\* of get_historical_data with its multiplier of 2, so |entry - stop| > 0
C40_InitialStopOnLossSide ==
    /\ \A i \in 1..Len(trades) :
          StopOnLossSide(trades[i].direction, trades[i].entry_price, trades[i].stop_loss)
    /\ \A signal \in Signals, current_price \in Prices, price_history \in Histories :
          StopOnLossSide(signal.direction, R(current_price),
                         Admission(signal, current_price, price_history).stop_loss)

\* a BULLISH and a BEARISH trade have been admitted
C40_Witness ==
    \E i, j \in 1..Len(trades) :
       /\ trades[i].direction = "BULLISH"
       /\ trades[j].direction = "BEARISH"
       /\ RLt(Zero, trades[i].entry_price)
       /\ RLt(Zero, trades[j].entry_price)

(***************************************************************************)
(* Frame properties of the monitor and the executor (Spec)                 *)
(***************************************************************************)
\* the P&L of the trades of rows S, each at the cached price of its symbol
RECURSIVE PricedPnl(_, _)
PricedPnl(store, S) ==
    IF S = {}
    THEN Zero
    ELSE LET i == CHOOSE k \in S : TRUE
         IN  RAdd(TradePnl(store[i], redis_price[store[i].symbol]),
                  PricedPnl(store, S \ {i}))

\* the drawdown of a tick that is given a price for the open trades of rows S only
PricedDrawdown(store, S) ==
    RDiv(RNeg(PricedPnl(store, S)), R(PortfolioCapital))

\* C33: in a monitoring tick a trade whose price is unavailable is skipped with no
\* state change: no trade record is modified, the aggregate P&L is that of the open
\* trades that were given a price (the rest contribute nothing), the tick halts only
\* if those trades alone reach the limit, and a tick in which no open trade has a price
\* computes 0 and does not halt
C33_UnpricedTradeSkipped ==
    [][(last_op' = "monitor_check" /\ daily_drawdown'.computed)
       => /\ trades' = trades
          /\ \E S \in SUBSET get_open_trades(trades) :
                /\ \A i \in S : redis_price[trades[i].symbol] # NoPrice
                /\ REq(daily_drawdown'.value, PricedDrawdown(trades, S))
                /\ is_trading_halted' # is_trading_halted
                   => RLe(MAX_DAILY_LOSS_LIMIT, PricedDrawdown(trades, S))
          /\ (\A i \in get_open_trades(trades) : redis_price[trades[i].symbol] = NoPrice)
             => /\ REq(daily_drawdown'.value, Zero)
                /\ is_trading_halted' = is_trading_halted]_vars

\* a tick over two open trades, both at a loss at the cached price, counted the loss of
\* one of them only: the other was skipped
C33_Witness ==
    /\ last_op = "monitor_check"
    /\ daily_drawdown.computed
    /\ \E i, j \in get_open_trades(trades) :
          /\ i # j
          /\ get_open_trades(trades) = {i, j}
          /\ RLt(Zero, PricedDrawdown(trades, {i}))
          /\ RLt(Zero, PricedDrawdown(trades, {j}))
          /\ REq(daily_drawdown.value, PricedDrawdown(trades, {j}))

\* C34: single-writer discipline: a monitor tick leaves the signal and trade stores
\* unchanged, an admission leaves halted and the aggregate fields unchanged, and a step
\* that changes halted or the aggregate is a monitor tick while a step that changes the
\* trade store is a step of the executor
C34_SingleWriter ==
    [][/\ last_op' \in {"monitor_check", "monitor_sleep"}
          => UNCHANGED <<signals, trades>>
       /\ last_op' \in {"process_signal", "place_trade"}
          => UNCHANGED <<is_trading_halted, loss_alerts, daily_drawdown>>
       /\ ~(UNCHANGED <<is_trading_halted, loss_alerts, daily_drawdown>>)
          => last_op' = "monitor_check"
       /\ trades' # trades => last_op' \in {"process_signal", "place_trade"}]_vars

\* a trade was stored after a tick that evaluated open trades and halted the portfolio
C34_Witness ==
    /\ last_op = "place_trade"
    /\ is_trading_halted
    /\ daily_drawdown.computed
    /\ Len(trades) >= 2

(***************************************************************************)
(* Concurrency of the signal gate (SpecGate)                               *)
(***************************************************************************)
\* C32: an evaluation in flight at shutdown commits all of its effects or none: after
\* shutdown no message on trade_signals was built from an insight that is still stored
\* under its key
C32_ShutdownCommitsAllOrNone ==
    gate.pc = "cancelled"
    => \A i \in 1..Len(gate.published), symbol \in GateSymbols :
          gate.store[symbol] # gate.published[i].prediction

\* C38: no stored prediction is deleted unevaluated: the value a delete removes from
\* the key is one the gate has read and evaluated
C38_NoPredictionDeletedUnevaluated ==
    [][last_op' = "delete"
       => gate.store[gate.key] \in {NoInsight} \cup gate.admitted \cup gate.rejected]_vars

(***************************************************************************)
(* Properties of the periodic loops (SpecLoops)                            *)
(***************************************************************************)
\* C31: an exception raised while one trade or key of a cycle is processed does not
\* keep the remaining trades or keys of that cycle from being processed: when the loop
\* is back in its sleep, no key or trade of the cycle is left unprocessed
C31_CycleProcessesRemainingItems ==
    loop.pc = "sleep" => \A k \in 1..loop.items : loop.outcome[k] # "pending"

\* the cycle that has just ended had a failure: a key or trade was skipped for lack of
\* data, or raised
LoopFailedCycle ==
    /\ loop.pc # "for"
    /\ \E k \in 1..loop.items : loop.outcome[k] \in {"skipped", "raised"}

\* C35: a failure inside a cycle (data unavailable, or an exception raised in the body)
\* never terminates the loop: the loop is always asleep or inside a cycle, and after a
\* failed cycle it goes on to run the next one
C35_FailedCycleIsFollowedByNext ==
    /\ [](loop.pc \in {"sleep", "for"})
    /\ \A t \in 1..(MaxTicks - 1) :
          (LoopFailedCycle /\ loop.ticks = t) ~> (loop.ticks = t + 1)

\* a cycle that raised on its first key or trade has been followed by another cycle
C35_Witness ==
    /\ loop.errors >= 1
    /\ loop.ticks >= 2
    /\ loop.pc = "for"

====
